---- MODULE Spec2Model ----
(***************************************************************************)
(* A model of main.py of SIMBS-Waiver-Checker: the module-level script     *)
(* (fetch future events, operator selection, fetch registrants, waiver     *)
(* lookups, reconciliation, report) and the functions it is made of.       *)
(*                                                                         *)
(* Time is counted in hours. A naive local datetime is the number of hours *)
(* since the local epoch; a Unix timestamp is the number of hours since    *)
(* the UTC epoch. Strings that the program inspects character by character *)
(* (emails, operator input, printed columns) are sequences of one-char     *)
(* strings; strings it only passes along are TLA+ strings.                 *)
(***************************************************************************)
EXTENDS Integers, Sequences, FiniteSets, TLC

VARIABLES
    pc,              \* position of the module-level script
    err,             \* the exception that ended the run, "" while none
    tz,              \* host's UTC offset in hours (used by datetime.fromtimestamp)
    time_now,        \* get_future_events: local time_now, None outside the call
    data,            \* get_future_events: local data['events'], <<>> outside the call
    future_events,   \* module global future_events
    sel,             \* get_event_selection: the text read by input()
    selected_event,  \* module global selected_event (a Python index)
    registrants,     \* module global registrants
    event_end_date,  \* module global event_end_date
    waiver_data,     \* waiverforever_api_request: data, then module global waiver_data
    processed_data,  \* process_waiver_data: processed_data, then users_x_waivers
    stdout,          \* what print() wrote, in order
    prompts,         \* number of input() calls made
    calls,           \* outbound HTTP calls made, in order, with the status received
    sheet            \* rows held by the remote spreadsheet

vars == << pc, err, tz, time_now, data, future_events, sel, selected_event,
           registrants, event_end_date, waiver_data, processed_data, stdout,
           prompts, calls, sheet >>

(***************************************************************************)
(* Bounds of the model and program constants                               *)
(***************************************************************************)
MaxEvents == 2      \* events returned by the event list call
MaxRegs == 2        \* orders returned for the selected event
MaxWaivers == 2     \* waivers in one search result (SpecProcess)
MaxFields == 1      \* fields in one waiver (SpecProcess)
MaxRows == 3        \* records handed to the reporter (SpecReport, SpecSheets)

WAIVER_VALIDITY == 365

None == "None"

(***************************************************************************)
(* Python built-ins the program relies on                                  *)
(***************************************************************************)
\* datetime.timedelta(days=d), in hours
timedelta(days) == days * 24

\* datetime.strptime(s, EVENTBRITE_TIME_FORMAT): the text of a local date and
\* time, here its day and hour fields, to a naive local datetime
strptime(s) == s.day * 24 + s.hour

\* datetime.fromtimestamp(ts): Unix timestamp to naive datetime in host local time
fromtimestamp(ts, offset) == ts + offset

LowerChar(c) ==
    CASE c = "A" -> "a"
      [] c = "B" -> "b"
      [] c = "L" -> "l"
      [] c = "O" -> "o"
      [] OTHER -> c

\* str.lower()
lower(s) == [i \in DOMAIN s |-> LowerChar(s[i])]

Digits == <<"0", "1", "2", "3", "4", "5", "6", "7", "8", "9">>

IsDigit(c) == \E d \in DOMAIN Digits : Digits[d] = c

DigitValue(c) == (CHOOSE d \in DOMAIN Digits : Digits[d] = c) - 1

RECURSIVE DigitsValue(_)
DigitsValue(s) ==
    IF s = <<>> THEN 0
    ELSE 10 * DigitsValue(SubSeq(s, 1, Len(s) - 1)) + DigitValue(s[Len(s)])

AllDigits(s) == s /= <<>> /\ \A i \in DOMAIN s : IsDigit(s[i])

\* whether int(s) succeeds: an optional sign followed by decimal digits
\* (the surrounding blanks and the underscores int() also accepts are not
\* among the operator inputs drawn here)
IsIntLiteral(s) ==
    \/ AllDigits(s)
    \/ /\ Len(s) >= 2
       /\ s[1] \in {"-", "+"}
       /\ AllDigits(Tail(s))

\* int(s) where it succeeds
int(s) ==
    IF s[1] = "-" THEN 0 - DigitsValue(Tail(s))
    ELSE IF s[1] = "+" THEN DigitsValue(Tail(s))
    ELSE DigitsValue(s)

\* whether lst[i] succeeds for a Python list of length Len(lst)
IndexOk(lst, i) == i < Len(lst) /\ i >= 0 - Len(lst)

\* lst[i] for a Python list, negative indices counting from the end
PyIndex(lst, i) == IF i >= 0 THEN lst[i + 1] ELSE lst[Len(lst) + i + 1]

\* format spec :<w  (left-align, pad with spaces to width w, never truncate)
PadLeftAlign(s, w) ==
    IF Len(s) >= w THEN s ELSE s \o [i \in 1..(w - Len(s)) |-> " "]

(***************************************************************************)
(* What the outside world can answer                                       *)
(***************************************************************************)
SeqsUpTo(S, n) == UNION {[1..k -> S] : k \in 0..n}

Distinct(s) == \A i, j \in DOMAIN s : i /= j => s[i] /= s[j]

Statuses == {200, 500}

UtcOffsets == {0 - 5, 0}

Event(id, name, day, hour) ==
    [id |-> id, name |-> [text |-> name], end |-> [local |-> [day |-> day, hour |-> hour]]]

\* the organization's events as the ticketing service holds them
EventCatalog ==
    { Event("e0", "Spring ride", 363, 0),
      Event("e1", "Trail day", 364, 0),
      Event("e2", "Skills clinic", 364, 20),
      Event("e3", "Night ride", 365, 0) }

\* datetime.now() when the run starts: the local end of "Trail day"
Nows == {strptime([day |-> 364, hour |-> 0])}

EventLists == {s \in SeqsUpTo(EventCatalog, MaxEvents) : Distinct(s)}

CatalogEvent(id) == CHOOSE e \in EventCatalog : e.id = id

Registrant(email, first_name, last_name) ==
    [email |-> email, first_name |-> first_name, last_name |-> last_name]

Orders ==
    { Registrant(<<"A", "l">>, <<"A", "l">>, <<"A">>),
      Registrant(<<"b", "o">>, <<"B", "o">>, <<"B">>) }

OrderLists == SeqsUpTo(Orders, MaxRegs)

Field(type, value) == [type |-> type, value |-> value]

FEmailAl == Field("email_field", <<"a", "l">>)
FEmailBo == Field("email_field", <<"b", "o">>)
FEmailEmpty == Field("email_field", <<>>)
FText == Field("text_field", <<"b", "o">>)

Waiver(received_at, fields) == [received_at |-> received_at, data |-> fields]

SearchResult(waivers) == [data |-> [waivers |-> waivers]]

\* a search response whose data object has no waivers key
NoWaiversKey == [data |-> [total |-> 0]]

\* the search responses of the whole-run specification
SearchResults ==
    { NoWaiversKey,
      SearchResult(<<>>),
      SearchResult(<<Waiver(5, <<>>)>>),
      SearchResult(<<Waiver(0, <<FEmailAl>>)>>),
      SearchResult(<<Waiver(5, <<FEmailBo>>), Waiver(0, <<FEmailAl>>)>>),
      SearchResult(<<Waiver(0, <<FEmailAl>>), Waiver(5, <<FText, FEmailBo>>)>>),
      SearchResult(<<Waiver(0, <<FEmailBo, FEmailEmpty>>)>>) }

\* what the operator may type at the prompt
OperatorInputs ==
    { <<"0">>, <<"1">>, <<"2">>, <<"3">>, <<"-", "1">>, <<"x">>, <<>> }

(***************************************************************************)
(* The run                                                                 *)
(***************************************************************************)
Init ==
    /\ pc = "get_future_events"
    /\ err = ""
    /\ tz \in UtcOffsets
    /\ time_now = None
    /\ data = <<>>
    /\ future_events = <<>>
    /\ sel = None
    /\ selected_event = None
    /\ registrants = <<>>
    /\ event_end_date = None
    /\ waiver_data = <<>>
    /\ processed_data = <<>>
    /\ stdout = <<>>
    /\ prompts = 0
    /\ calls = <<>>
    /\ sheet = <<>>

\* response.raise_for_status() raises
IsHttpError(status) == status >= 400

Call(endpoint, status) == [endpoint |-> endpoint, status |-> status]

\* an uncaught exception ends the run; every variable keeps the value it had
Raise(exception) ==
    /\ pc' = "crashed"
    /\ err' = exception

\* get_future_events, lines 48-53: the event list request
EventsRequest ==
    /\ pc = "get_future_events"
    /\ \E now \in Nows, status \in Statuses, events \in EventLists :
        /\ calls' = Append(calls, Call("events", status))
        /\ IF IsHttpError(status)
           THEN /\ Raise("HTTPError")
                /\ UNCHANGED << time_now, data >>
           ELSE /\ time_now' = now
                /\ data' = events
                /\ pc' = "filter_future_events"
                /\ err' = err
    /\ UNCHANGED << tz, future_events, sel, selected_event, registrants,
                    event_end_date, waiver_data, processed_data, stdout,
                    prompts, sheet >>

\* mutant of IsFuture: an event ending exactly now counts as future
IsFutureInclusive(item, now) == strptime(item.end.local) >= now

\* the condition of the list comprehension of line 55
IsFuture(item, now) == strptime(item.end.local) > now

FutureEventsOf(events, now) == SelectSeq(events, LAMBDA item : IsFuture(item, now))

\* get_future_events, lines 55-58, and the script's lines 174-177
FilterFutureEvents ==
    /\ pc = "filter_future_events"
    /\ LET f_events == FutureEventsOf(data, time_now) IN
        /\ future_events' = f_events
        /\ IF f_events = <<>>
           THEN /\ stdout' = Append(stdout, <<"No future events found.">>)
                /\ pc' = "exited"
           ELSE /\ stdout' = stdout
                /\ pc' = "get_event_selection"
    /\ time_now' = None
    /\ data' = <<>>
    /\ UNCHANGED << err, tz, sel, selected_event, registrants, event_end_date,
                    waiver_data, processed_data, prompts, calls, sheet >>

\* the menu printed by lines 62-63
Menu(f_events) == [i \in DOMAIN f_events |-> <<"menu", i, f_events[i].name.text>>]

\* get_event_selection (lines 61-65) and the script's lines 179-183
GetEventSelection ==
    /\ pc = "get_event_selection"
    /\ prompts' = prompts + 1
    /\ \E text \in OperatorInputs :
        /\ sel' = text
        /\ IF ~IsIntLiteral(text)
           THEN /\ Raise("ValueError")
                /\ selected_event' = selected_event
                /\ stdout' = stdout \o Menu(future_events)
           ELSE LET index == int(text) - 1 IN
                /\ selected_event' = index
                /\ IF ~IndexOk(future_events, index)
                   THEN /\ Raise("IndexError")
                        /\ stdout' = stdout \o Menu(future_events)
                   ELSE /\ stdout' = stdout \o Menu(future_events) \o
                               << <<"Selected event", PyIndex(future_events, index).id>> >>
                        /\ pc' = "get_registrants"
                        /\ err' = err
    /\ UNCHANGED << tz, time_now, data, future_events, registrants, event_end_date,
                    waiver_data, processed_data, calls, sheet >>

SelectedId == PyIndex(future_events, selected_event).id

\* get_registrants, lines 70-74: the order list request
OrdersRequest ==
    /\ pc = "get_registrants"
    /\ \E status \in Statuses, regs \in OrderLists :
        /\ calls' = Append(calls, Call("orders", status))
        /\ IF IsHttpError(status)
           THEN /\ Raise("HTTPError")
                /\ registrants' = registrants
           ELSE /\ registrants' = regs
                /\ pc' = "get_event_detail"
                /\ err' = err
    /\ UNCHANGED << tz, time_now, data, future_events, sel, selected_event,
                    event_end_date, waiver_data, processed_data, stdout, prompts,
                    sheet >>

\* get_registrants, lines 77-83: the event detail request
EventDetailRequest ==
    /\ pc = "get_event_detail"
    /\ \E status \in Statuses :
        /\ calls' = Append(calls, Call("event", status))
        /\ IF IsHttpError(status)
           THEN /\ Raise("HTTPError")
                /\ event_end_date' = event_end_date
           ELSE /\ event_end_date' = strptime(CatalogEvent(SelectedId).end.local)
                /\ pc' = "waiverforever_api_request"
                /\ err' = err
    /\ UNCHANGED << tz, time_now, data, future_events, sel, selected_event,
                    registrants, waiver_data, processed_data, stdout, prompts,
                    sheet >>

\* waiverforever_api_request, lines 89-95: one iteration of the loop
WaiverSearchRequest ==
    /\ pc = "waiverforever_api_request"
    /\ Len(waiver_data) < Len(registrants)
    /\ LET reg == registrants[Len(waiver_data) + 1] IN
       \E status \in Statuses, json_data \in SearchResults :
        /\ calls' = Append(calls, Call("waiver_search", status))
        /\ IF IsHttpError(status)
           THEN /\ Raise("HTTPError")
                /\ waiver_data' = waiver_data
           ELSE /\ waiver_data' = Append(waiver_data,
                        [eventbrite_data |-> reg, waiverforever_data |-> json_data])
                /\ UNCHANGED << pc, err >>
    /\ UNCHANGED << tz, time_now, data, future_events, sel, selected_event,
                    registrants, event_end_date, processed_data, stdout, prompts,
                    sheet >>

\* waiverforever_api_request, lines 96-97: the loop is over
WaiverSearchReturn ==
    /\ pc = "waiverforever_api_request"
    /\ Len(waiver_data) = Len(registrants)
    /\ pc' = "process_waiver_data"
    /\ UNCHANGED << err, tz, time_now, data, future_events, sel, selected_event,
                    registrants, event_end_date, waiver_data, processed_data,
                    stdout, prompts, calls, sheet >>

(***************************************************************************)
(* process_waiver_data                                                     *)
(***************************************************************************)
\* mutant of IsCurrentWaiver: a waiver expiring exactly at the cutoff counts
IsCurrentWaiverInclusive(waiver_date, end_date) ==
    waiver_date + timedelta(WAIVER_VALIDITY) >= end_date

\* the condition of line 114
IsCurrentWaiver(waiver_date, end_date) ==
    waiver_date + timedelta(WAIVER_VALIDITY) > end_date

\* mutant of EmailAfterField: the first email field wins
EmailAfterFieldFirstWins(field, waiverforever_email) ==
    IF field.type = "email_field" /\ waiverforever_email = <<>>
    THEN field.value ELSE waiverforever_email

\* lines 117-118: one field of a waiver
EmailAfterField(field, waiverforever_email) ==
    IF field.type = "email_field" THEN field.value ELSE waiverforever_email

\* lines 116-118: the loop over a waiver's fields
RECURSIVE ScanFields(_, _)
ScanFields(fields, waiverforever_email) ==
    IF fields = <<>> THEN waiverforever_email
    ELSE ScanFields(Tail(fields), EmailAfterField(Head(fields), waiverforever_email))

\* mutant of ScanWaiver: the date is put at the front of dates
ScanWaiverInsertFront(acc, waiver, end_date, offset) ==
    LET waiver_date == fromtimestamp(waiver.received_at, offset)
    IN  [ dates |-> <<waiver_date>> \o acc.dates,
          is_current |-> IF IsCurrentWaiver(waiver_date, end_date)
                         THEN TRUE ELSE acc.is_current,
          waiverforever_email |-> ScanFields(waiver.data, acc.waiverforever_email) ]

\* lines 111-118: the body of the loop over waivers
ScanWaiver(acc, waiver, end_date, offset) ==
    LET waiver_unix_date == waiver.received_at
        waiver_date == fromtimestamp(waiver_unix_date, offset)
    IN  [ dates |-> Append(acc.dates, waiver_date),
          is_current |-> IF IsCurrentWaiver(waiver_date, end_date)
                         THEN TRUE ELSE acc.is_current,
          waiverforever_email |-> ScanFields(waiver.data, acc.waiverforever_email) ]

\* mutant of ScanWaivers: the loop breaks once a current waiver is found
RECURSIVE ScanWaiversEarlyExit(_, _, _, _)
ScanWaiversEarlyExit(acc, waivers, end_date, offset) ==
    IF waivers = <<>> \/ acc.is_current THEN acc
    ELSE ScanWaiversEarlyExit(ScanWaiver(acc, Head(waivers), end_date, offset),
                              Tail(waivers), end_date, offset)

\* lines 110-118: the loop over waivers
RECURSIVE ScanWaivers(_, _, _, _)
ScanWaivers(acc, waivers, end_date, offset) ==
    IF waivers = <<>> THEN acc
    ELSE ScanWaivers(ScanWaiver(acc, Head(waivers), end_date, offset),
                     Tail(waivers), end_date, offset)

\* lines 107-109
ScanStart == [dates |-> <<>>, is_current |-> FALSE, waiverforever_email |-> <<>>]

\* mutant of EmailsMatch: the assert is compiled away
EmailsMatchUnchecked(waiverforever_email, eb_email) == TRUE

\* the condition of the assert of line 119
EmailsMatch(waiverforever_email, eb_email) ==
    \/ waiverforever_email = <<>>
    \/ lower(waiverforever_email) = lower(eb_email)

\* lines 122-129
ProcessedRecord(reg, scan) ==
    [ wf_email |-> scan.waiverforever_email,
      eb_email |-> reg.eventbrite_data.email,
      eb_first_name |-> reg.eventbrite_data.first_name,
      eb_last_name |-> reg.eventbrite_data.last_name,
      dates |-> scan.dates,
      is_current |-> scan.is_current ]

\* reg['waiverforever_data']['data']['waivers'] finds its key
HasWaiversKey(reg) == "waivers" \in DOMAIN reg.waiverforever_data.data

\* process_waiver_data, lines 106-129: one iteration of the loop over registrations
ProcessRegistration ==
    /\ pc = "process_waiver_data"
    /\ Len(processed_data) < Len(waiver_data)
    /\ LET reg == waiver_data[Len(processed_data) + 1] IN
       IF ~HasWaiversKey(reg)
       THEN /\ Raise("KeyError")
            /\ processed_data' = processed_data
       ELSE LET scan == ScanWaivers(ScanStart, reg.waiverforever_data.data.waivers,
                                    event_end_date, tz)
            IN  IF ~EmailsMatch(scan.waiverforever_email, reg.eventbrite_data.email)
                THEN /\ Raise("AssertionError")
                     /\ processed_data' = processed_data
                ELSE /\ processed_data' = Append(processed_data, ProcessedRecord(reg, scan))
                     /\ UNCHANGED << pc, err >>
    /\ UNCHANGED << tz, time_now, data, future_events, sel, selected_event,
                    registrants, event_end_date, waiver_data, stdout, prompts,
                    calls, sheet >>

\* process_waiver_data, lines 130-131: the loop is over
ProcessReturn ==
    /\ pc = "process_waiver_data"
    /\ Len(processed_data) = Len(waiver_data)
    /\ pc' = "prepare_data_for_reporting"
    /\ UNCHANGED << err, tz, time_now, data, future_events, sel, selected_event,
                    registrants, event_end_date, waiver_data, processed_data,
                    stdout, prompts, calls, sheet >>

(***************************************************************************)
(* Reporting                                                               *)
(***************************************************************************)
\* date.strftime('%-m/%-d/%Y'): the calendar day, the time of day dropped
strftime(date) == [mdy |-> date \div 24]

\* prepare_data_for_reporting, lines 146-148, for one item
PreparedItem(item) ==
    IF item.dates /= <<>>
    THEN [item EXCEPT !.dates = [j \in DOMAIN item.dates |-> strftime(item.dates[j])]]
    ELSE item

\* prepare_data_for_reporting (lines 145-149), the script's line 190
PrepareDataForReporting ==
    /\ pc = "prepare_data_for_reporting"
    /\ processed_data' = [i \in DOMAIN processed_data |-> PreparedItem(processed_data[i])]
    /\ pc' = "report_to_console"
    /\ UNCHANGED << err, tz, time_now, data, future_events, sel, selected_event,
                    registrants, event_end_date, waiver_data, stdout, prompts,
                    calls, sheet >>

\* mutant of IsInvalid: the "not" is lost
IsInvalidInverted(item) == item.is_current

\* the condition of lines 135 and 141
IsInvalid(item) == ~item.is_current

\* line 135
RECURSIVE InvalidCount(_)
InvalidCount(items) ==
    IF items = <<>> THEN 0
    ELSE (IF IsInvalid(Head(items)) THEN 1 ELSE 0) + InvalidCount(Tail(items))

\* line 142: one row of the table
TableRow(waiver) ==
    << "row", PadLeftAlign(waiver.eb_email, 30) \o <<" ">> \o
              PadLeftAlign(waiver.eb_first_name, 15) \o <<" ">> \o
              PadLeftAlign(waiver.eb_last_name, 15) >>

\* lines 140-142
RECURSIVE TableRows(_)
TableRows(items) ==
    IF items = <<>> THEN <<>>
    ELSE (IF IsInvalid(Head(items)) THEN <<TableRow(Head(items))>> ELSE <<>>)
         \o TableRows(Tail(items))

\* report_to_console (lines 133-142), the script's line 191
ReportToConsole ==
    /\ pc = "report_to_console"
    /\ stdout' = stdout \o
            << <<"Found", InvalidCount(processed_data), Len(processed_data)>>,
               <<"Invalid or missing waivers:">>,
               <<"Email Firstname Lastname">> >> \o
            TableRows(processed_data)
    /\ pc' = "done"
    /\ UNCHANGED << err, tz, time_now, data, future_events, sel, selected_event,
                    registrants, event_end_date, waiver_data, processed_data,
                    prompts, calls, sheet >>

Next ==
    \/ EventsRequest
    \/ FilterFutureEvents
    \/ GetEventSelection
    \/ OrdersRequest
    \/ EventDetailRequest
    \/ WaiverSearchRequest
    \/ WaiverSearchReturn
    \/ ProcessRegistration
    \/ ProcessReturn
    \/ PrepareDataForReporting
    \/ ReportToConsole

Spec == Init /\ [][Next]_vars

(***************************************************************************)
(* process_waiver_data on its own: one registration, any search result     *)
(***************************************************************************)
FieldKinds == {FEmailAl, FEmailBo, FEmailEmpty, FText}

FieldLists == SeqsUpTo(FieldKinds, MaxFields)

ReceivedAts == {0, 5}

WaiverKinds == {Waiver(t, f) : t \in ReceivedAts, f \in FieldLists}

WaiverLists == SeqsUpTo(WaiverKinds, MaxWaivers)

AnySearchResults == {NoWaiversKey} \cup {SearchResult(w) : w \in WaiverLists}

Registrations ==
    [eventbrite_data : Orders, waiverforever_data : AnySearchResults]

\* the local end times of the events a run can select
CutoffDates == {strptime(e.end.local) : e \in {CatalogEvent("e2"), CatalogEvent("e3")}}

InitProcess ==
    /\ pc = "process_waiver_data"
    /\ err = ""
    /\ tz \in UtcOffsets
    /\ time_now = None
    /\ data = <<>>
    /\ future_events = <<>>
    /\ sel = None
    /\ selected_event = None
    /\ registrants = <<>>
    /\ event_end_date \in CutoffDates
    /\ waiver_data \in {<<>>} \cup {<<r>> : r \in Registrations}
    /\ processed_data = <<>>
    /\ stdout = <<>>
    /\ prompts = 0
    /\ calls = <<>>
    /\ sheet = <<>>

NextProcess ==
    \/ ProcessRegistration
    \/ ProcessReturn

SpecProcess == InitProcess /\ [][NextProcess]_vars

(***************************************************************************)
(* output_to_google_sheets on its own (the script's line 192 is commented  *)
(* out, so no run of the script reaches it)                                *)
(***************************************************************************)
\* lines 157-158: the clear request; its response is dropped
SheetsClearRequest ==
    /\ pc = "output_to_google_sheets"
    /\ \E status \in Statuses :
        /\ calls' = Append(calls, Call("sheets_clear", status))
        /\ sheet' = IF IsHttpError(status) THEN sheet ELSE <<>>
    /\ pc' = "sheets_write"
    /\ UNCHANGED << err, tz, time_now, data, future_events, sel, selected_event,
                    registrants, event_end_date, waiver_data, processed_data,
                    stdout, prompts >>

\* what a write of rows at Sheet1!A1 leaves in the sheet
Overwritten(old, rows) ==
    rows \o (IF Len(old) > Len(rows) THEN SubSeq(old, Len(rows) + 1, Len(old)) ELSE <<>>)

\* lines 161-171: the write request
SheetsWriteRequest ==
    /\ pc = "sheets_write"
    /\ \E status \in Statuses :
        /\ calls' = Append(calls, Call("sheets_write", status))
        /\ IF IsHttpError(status)
           THEN /\ Raise("HTTPError")
                /\ sheet' = sheet
           ELSE /\ sheet' = Overwritten(sheet, processed_data)
                /\ pc' = "done"
                /\ err' = err
    /\ UNCHANGED << tz, time_now, data, future_events, sel, selected_event,
                    registrants, event_end_date, waiver_data, processed_data,
                    stdout, prompts >>

\* reconciled and formatted records, as the script's formatted_data holds them
FormattedItems ==
    { PreparedItem(ProcessedRecord(
          [eventbrite_data |-> o, waiverforever_data |-> SearchResult(w)],
          ScanWaivers(ScanStart, w, strptime(CatalogEvent("e3").end.local), 0))) :
      o \in Orders, w \in {<<>>, <<Waiver(5, <<>>)>>} }

InitSheets ==
    /\ pc = "output_to_google_sheets"
    /\ err = ""
    /\ tz \in UtcOffsets
    /\ time_now = None
    /\ data = <<>>
    /\ future_events = <<>>
    /\ sel = None
    /\ selected_event = None
    /\ registrants = <<>>
    /\ event_end_date = None
    /\ waiver_data = <<>>
    /\ processed_data \in SeqsUpTo(FormattedItems, MaxRows)
    /\ stdout = <<>>
    /\ prompts = 0
    /\ calls = <<>>
    /\ sheet \in SeqsUpTo(FormattedItems, MaxRows)

NextSheets ==
    \/ SheetsClearRequest
    \/ SheetsWriteRequest

SpecSheets == InitSheets /\ [][NextSheets]_vars

(***************************************************************************)
(* report_to_console on its own: any reconciled, formatted sequence        *)
(***************************************************************************)
InitReport ==
    /\ pc = "report_to_console"
    /\ err = ""
    /\ tz \in UtcOffsets
    /\ time_now = None
    /\ data = <<>>
    /\ future_events = <<>>
    /\ sel = None
    /\ selected_event = None
    /\ registrants = <<>>
    /\ event_end_date = None
    /\ waiver_data = <<>>
    /\ processed_data \in SeqsUpTo(FormattedItems, MaxRows)
    /\ stdout = <<>>
    /\ prompts = 0
    /\ calls = <<>>
    /\ sheet = <<>>

NextReport == ReportToConsole

SpecReport == InitReport /\ [][NextReport]_vars

(***************************************************************************)
(* Notions the properties are stated with                                  *)
(***************************************************************************)
WaiversOf(i) == waiver_data[i].waiverforever_data.data.waivers

RegistrantOf(i) == waiver_data[i].eventbrite_data

RECURSIVE AllFields(_)
AllFields(waivers) ==
    IF waivers = <<>> THEN <<>> ELSE Head(waivers).data \o AllFields(Tail(waivers))

\* the value of the last email-typed field in scan order, "" if there is none
LastEmailValue(waivers) ==
    LET flat == AllFields(waivers)
        E == {k \in DOMAIN flat : flat[k].type = "email_field"}
    IN  IF E = {} THEN <<>> ELSE flat[CHOOSE k \in E : \A m \in E : m <= k].value

DiffersIgnoringCase(a, b) == lower(a) /= lower(b)

\* some email-typed field of some waiver holds an email (a non-empty value)
\* that differs from the ticketing email
SomeEmailFieldDiffers(i) ==
    \E f \in {AllFields(WaiversOf(i))[k] : k \in DOMAIN AllFields(WaiversOf(i))} :
        /\ f.type = "email_field"
        /\ f.value /= <<>>
        /\ DiffersIgnoringCase(f.value, RegistrantOf(i).email)

\* the last email-typed field has a non-empty value that differs
FinalEmailDiffers(i) ==
    /\ LastEmailValue(WaiversOf(i)) /= <<>>
    /\ DiffersIgnoringCase(LastEmailValue(WaiversOf(i)), RegistrantOf(i).email)

\* received_at, as a local date, plus 365 days is strictly after the cutoff
ExpiresAfterCutoff(waiver) == waiver.received_at + tz + 365 * 24 > event_end_date

ReportingReached ==
    \/ pc \in {"prepare_data_for_reporting", "report_to_console", "done"}
    \/ \E k \in DOMAIN stdout : stdout[k][1] \in {"Found", "row"}

(***************************************************************************)
(* Properties                                                              *)
(***************************************************************************)

\* C1: every emitted record has is_current = TRUE exactly when some waiver of
\* that registrant's list, wherever it stands in the list, has its local
\* received_at date plus 365 days strictly after the cutoff end_date.
C1_CurrentIffSomeWaiverValid ==
    \A i \in DOMAIN processed_data :
        processed_data[i].is_current
            <=> \E j \in DOMAIN WaiversOf(i) : ExpiresAfterCutoff(WaiversOf(i)[j])

\* C1 witness: a record is current although its first waiver expires exactly
\* at the cutoff; only the second waiver is valid.
C1_Witness ==
    \E i \in DOMAIN processed_data :
        /\ processed_data[i].is_current
        /\ Len(WaiversOf(i)) = 2
        /\ WaiversOf(i)[1].received_at + tz + 365 * 24 = event_end_date
        /\ ExpiresAfterCutoff(WaiversOf(i)[2])

\* C2 as claimed: a registrant one of whose waivers holds an email field with
\* an email that differs, ignoring case, from the ticketing email gets no
\* record, neither does any later registrant, and reporting is never reached.
C2_AnyDifferingEmailAborts ==
    \A i \in DOMAIN waiver_data :
        (HasWaiversKey(waiver_data[i]) /\ SomeEmailFieldDiffers(i))
            => (Len(processed_data) < i /\ ~ReportingReached)

\* C2 as amended: a registrant whose last email-typed field in scan order has
\* a non-empty value that differs, ignoring case, from the ticketing email
\* gets no record, neither does any later registrant, and reporting is never
\* reached.
C2_FinalDifferingEmailAborts ==
    \A i \in DOMAIN waiver_data :
        (HasWaiversKey(waiver_data[i]) /\ FinalEmailDiffers(i))
            => (Len(processed_data) < i /\ ~ReportingReached)

\* C2 witness: the run was aborted by the integrity check at the first of two
\* registrants.
C2_Witness ==
    /\ pc = "crashed"
    /\ err = "AssertionError"
    /\ Len(waiver_data) = 2
    /\ processed_data = <<>>
    /\ FinalEmailDiffers(1)

\* C3: every record appended to processed_data has an empty wf_email or one
\* equal to eb_email once both are lower-cased.
C3_EmittedEmailsAgree ==
    \A i \in DOMAIN processed_data :
        \/ processed_data[i].wf_email = <<>>
        \/ lower(processed_data[i].wf_email) = lower(processed_data[i].eb_email)

\* C3 witness: a record whose emails agree only when lower-cased.
C3_Witness ==
    \E i \in DOMAIN processed_data :
        /\ processed_data[i].wf_email /= <<>>
        /\ processed_data[i].wf_email /= processed_data[i].eb_email

\* C4: when process_waiver_data returns, there is one record per input pair,
\* in input order, and each record's dates has one entry per waiver of that
\* registrant, the j-th being the local date of the j-th waiver's received_at.
C4_OneRecordPerPairInOrder ==
    pc = "prepare_data_for_reporting" =>
        /\ Len(processed_data) = Len(waiver_data)
        /\ \A i \in DOMAIN processed_data :
            /\ processed_data[i].eb_email = RegistrantOf(i).email
            /\ processed_data[i].eb_first_name = RegistrantOf(i).first_name
            /\ processed_data[i].eb_last_name = RegistrantOf(i).last_name
            /\ Len(processed_data[i].dates) = Len(WaiversOf(i))
            /\ \A j \in DOMAIN WaiversOf(i) :
                processed_data[i].dates[j] = WaiversOf(i)[j].received_at + tz

\* C4 witness: two different registrants were reconciled, one of them with two
\* waivers of different dates and one with no waiver.
C4_Witness ==
    /\ pc = "prepare_data_for_reporting"
    /\ Len(processed_data) = 2
    /\ processed_data[1].eb_email /= processed_data[2].eb_email
    /\ \E i, k \in DOMAIN processed_data :
        /\ Len(processed_data[i].dates) = 2
        /\ processed_data[i].dates[1] /= processed_data[i].dates[2]
        /\ processed_data[k].dates = <<>>

\* C5: a registrant whose search result has no waiver list is handled like one
\* with zero waivers: process_waiver_data raises nothing at that registrant,
\* and the record it emits has is_current = FALSE, dates = [] and wf_email = "".
C5_MissingListIsZeroWaivers ==
    \A i \in DOMAIN waiver_data :
        ~HasWaiversKey(waiver_data[i]) =>
            /\ ~(pc = "crashed" /\ Len(processed_data) = i - 1)
            /\ i <= Len(processed_data) =>
                /\ ~processed_data[i].is_current
                /\ processed_data[i].dates = <<>>
                /\ processed_data[i].wf_email = <<>>

\* C6: a non-success status of any outbound call ends the run at that call:
\* it is the last call made and the run has stopped with an error.
C6_HttpErrorEndsRun ==
    \A k \in DOMAIN calls :
        IsHttpError(calls[k].status) => (k = Len(calls) /\ pc = "crashed")

StageOf(p) ==
    CASE p \in {"get_future_events", "filter_future_events"} -> 1
      [] p = "get_event_selection" -> 2
      [] p \in {"get_registrants", "get_event_detail"} -> 3
      [] p = "waiverforever_api_request" -> 4
      [] p = "process_waiver_data" -> 5
      [] p \in {"prepare_data_for_reporting", "report_to_console"} -> 6
      [] OTHER -> 7

\* no event of the response ends strictly after now
NoFutureEventReturned ==
    \A k \in DOMAIN data : ~(strptime(data[k].end.local) > time_now)

\* C8: when the event source returns no event ending strictly after now, the
\* run ends successfully right after the event fetch, with no prompt, no
\* further call, no reconciliation and no report; otherwise the operator is
\* prompted next, and a run only ever stays in its stage, moves to the next
\* stage (fetch events, selection, fetch registrants, waiver lookups,
\* reconciliation, report) or ends.
C8_StagesInOrder ==
    /\ [][ (pc = "filter_future_events" /\ NoFutureEventReturned)
               => pc' = "exited" ]_vars
    /\ [][ (pc = "filter_future_events" /\ ~NoFutureEventReturned)
               => pc' = "get_event_selection" ]_vars
    /\ [](pc = "exited" =>
            /\ err = ""
            /\ prompts = 0
            /\ Len(calls) = 1 /\ calls[1].endpoint = "events"
            /\ registrants = <<>> /\ waiver_data = <<>> /\ processed_data = <<>>
            /\ stdout = << <<"No future events found.">> >>)
    /\ [][ \/ StageOf(pc') = StageOf(pc)
           \/ StageOf(pc') = StageOf(pc) + 1
           \/ StageOf(pc') = 7 ]_vars
    /\ [][ StageOf(pc) = 7 => pc' = pc ]_vars

\* C8 witness: the run ended successfully because no future event was found.
C8_Witness ==
    /\ pc = "exited"
    /\ future_events = <<>>
    /\ stdout = << <<"No future events found.">> >>

IsMenuNumber(text, n) == IsIntLiteral(text) /\ int(text) \in 1..n

\* C10: an operator input that is not a number of the menu, 1..N, selects no
\* event: the run does not go on to fetch registrants or waivers.
C10_InvalidSelectionSelectsNothing ==
    (prompts > 0 /\ ~IsMenuNumber(sel, Len(future_events))) =>
        /\ StageOf(pc) \notin {3, 4, 5, 6}
        /\ pc /= "done"
        /\ \A k \in DOMAIN calls :
            calls[k].endpoint \notin {"orders", "event", "waiver_search"}

====
